---- MODULE Spec2Model ----
(***************************************************************************)
(* A model of the JockeyAI repository.  Independent parts of the           *)
(* program are modelled, each with its own specifications over its own     *)
(* variables (the variables of the other parts stay at their initial       *)
(* values):                                                                *)
(*                                                                         *)
(*   SpecEngines   MGX_template: OCREngineManager (hot-swapping)           *)
(*   SpecConfig    MGX_template: OCREngineManager, OCRConfig and           *)
(*                 OCRConfigManager (saved experiments)                    *)
(*   SpecExc       MGX_template: ExceptionHandler and                      *)
(*                 OCRProcessor.process_file                               *)
(*   SpecVision    ocr_processor.py / diary_extractor.py: one vision-model *)
(*                 request with its primary/fallback call chain            *)
(*   SpecPipeline  jokey_ocr: data_pipeline.main and the plugins           *)
(*   SpecValidate  jokey_ocr: plugins/base.py validate_plugin_output       *)
(*   SpecDb        database.py: DatabaseManager                            *)
(*   SpecData      MGX_template: DataProcessor                             *)
(*   SpecApp       MGX_template: app.py pages used by several sessions     *)
(*   SpecDiary     diary_extractor.py: DiaryExtractor.extract_from_pdf     *)
(***************************************************************************)
EXTENDS Integers, Sequences, FiniteSets, TLC

(***************************************************************************)
(* Bounds of the model.                                                    *)
(***************************************************************************)
\* longest engine-name list passed to set_active_engines / create_experiment
MaxListLen == 2
\* last second of the wall clock (experiment ids are second-resolution stamps)
MaxClock == 1
\* number of manager calls explored in one run of SpecConfig
MaxOps == 4

(***************************************************************************)
(* Helpers on sequences (Python lists).                                    *)
(***************************************************************************)
Range(s) == {s[i] : i \in 1..Len(s)}

In(x, s) == \E i \in 1..Len(s) : s[i] = x

Count(x, s) == Cardinality({i \in 1..Len(s) : s[i] = x})

SeqsUpTo(S, n) == UNION {[1..k -> S] : k \in 0..n}

\* list.remove(x): drops the first occurrence of x
RemoveFirst(s, x) ==
  LET i == CHOOSE k \in 1..Len(s) : s[k] = x /\ \A j \in 1..(k-1) : s[j] # x
  IN  [k \in 1..(Len(s)-1) |-> IF k < i THEN s[k] ELSE s[k+1]]

(***************************************************************************)
(* Part 1: MGX_template engine manager, configuration and experiments.     *)
(***************************************************************************)
VARIABLES
  engines,          \* OCREngineManager.engines: name -> is_available
  active_engines,   \* OCREngineManager.active_engines (a list)
  ocr_config,       \* the OCRConfig fields an experiment saves and restores
  experiments,      \* OCRConfigManager.experiments: id -> OCRExperimentConfig
  now,              \* the wall clock, in seconds (datetime.now())
  last,             \* the last manager call: its name, argument and return value
  saved,            \* history: id -> the configuration save_current_config saw
                    \*          when it first returned that id (dropped when the
                    \*          id is deleted or given to create_experiment)
  budget            \* manager calls left to explore (-1: no limit)

engineVars == <<engines, active_engines, ocr_config, experiments, now, last, saved, budget>>

\* engine names a caller may pass; "easyocr" is never registered
EngineNames == {"tesseract", "paddle", "easyocr"}

\* insertion order of OCREngineManager.engines (dict iteration order)
EngineOrder == <<"tesseract", "paddle">>

EngineLists == SeqsUpTo(EngineNames, MaxListLen)

\* OCRConfig defaults; target_accuracy is kept in percent (0.85 -> 85)
DefaultTargetAccuracy == 85

OCRConfigDefault ==
  [enable_preprocessing |-> TRUE, combine_results |-> TRUE,
   target_accuracy |-> DefaultTargetAccuracy]

\* [name for name in xs if name in ys], the comprehension of set_active_engines
RECURSIVE KeepIfIn(_, _)
KeepIfIn(xs, ys) ==
  IF xs = <<>> THEN <<>>
  ELSE LET rest == KeepIfIn(Tail(xs), ys)
       IN  IF In(Head(xs), ys) THEN <<Head(xs)>> \o rest ELSE rest

get_available_engines ==
  SelectSeq(EngineOrder, LAMBDA n : n \in DOMAIN engines /\ engines[n])

get_active_engines == active_engines

get_engine_status ==
  [n \in DOMAIN engines |->
     [available |-> engines[n], active |-> In(n, active_engines)]]

\* the engines OCREngineManager.process_image runs, in order
process_image_runs ==
  SelectSeq(active_engines, LAMBDA n : n \in DOMAIN engines)

\* the record kept of a call: its name, its engine-name, list or id argument,
\* its return value and whether it changed active_engines
CallRecord(op, arg, list, id, ret, changed) ==
  [op |-> op, arg |-> arg, list |-> list, id |-> id, ret |-> ret, changed |-> changed]

NoCall == CallRecord("none", "", <<>>, -1, FALSE, FALSE)

Called(record) ==
  /\ budget # 0
  /\ budget' = IF budget > 0 THEN budget - 1 ELSE budget
  /\ last' = record

\* OCREngineManager.__init__ / _initialize_engines: both engines are registered
\* (enable_tesseract and enable_paddle default to True); whether each one is
\* available depends on the host, and the available ones start active.
InitManagers ==
  /\ engines \in [{"tesseract", "paddle"} -> BOOLEAN]
  /\ active_engines = get_available_engines
  /\ ocr_config = OCRConfigDefault
  /\ experiments = <<>>
  /\ now = 0
  /\ last = NoCall
  /\ saved = <<>>

\* a variant that walks the registry instead of the caller's list
SetActiveInRegistryOrder(engine_names) ==
  active_engines' = KeepIfIn(get_available_engines, engine_names)

\* a variant that takes the caller's list as it is
SetActiveUnfiltered(engine_names) ==
  active_engines' = engine_names

SetActive(engine_names) ==
  active_engines' = KeepIfIn(engine_names, get_available_engines)

set_active_engines(engine_names) ==
  /\ SetActive(engine_names)
  /\ Called(CallRecord("set_active_engines", "", engine_names, -1, FALSE,
                       active_engines' # active_engines))
  /\ UNCHANGED <<engines, ocr_config, experiments, now, saved>>

enable_engine(engine_name) ==
  /\ IF engine_name \in DOMAIN engines /\ engines[engine_name]
     THEN /\ active_engines' =
               IF ~In(engine_name, active_engines)
               THEN Append(active_engines, engine_name)
               ELSE active_engines
          /\ Called(CallRecord("enable_engine", engine_name, <<>>, -1, TRUE,
                               active_engines' # active_engines))
     ELSE /\ UNCHANGED active_engines
          /\ Called(CallRecord("enable_engine", engine_name, <<>>, -1, FALSE, FALSE))
  /\ UNCHANGED <<engines, ocr_config, experiments, now, saved>>

disable_engine(engine_name) ==
  /\ IF In(engine_name, active_engines)
     THEN /\ active_engines' = RemoveFirst(active_engines, engine_name)
          /\ Called(CallRecord("disable_engine", engine_name, <<>>, -1, TRUE, TRUE))
     ELSE /\ UNCHANGED active_engines
          /\ Called(CallRecord("disable_engine", engine_name, <<>>, -1, FALSE, FALSE))
  /\ UNCHANGED <<engines, ocr_config, experiments, now, saved>>

reset_to_default ==
  /\ active_engines' = get_available_engines
  /\ Called(CallRecord("reset_to_default", "", <<>>, -1, FALSE,
                       active_engines' # active_engines))
  /\ UNCHANGED <<engines, ocr_config, experiments, now, saved>>

(***************************************************************************)
(* OCRConfigManager: experiments keyed by a second-resolution time stamp.  *)
(***************************************************************************)
\* dict helpers
Put(d, k, v) == [x \in (DOMAIN d) \cup {k} |-> IF x = k THEN v ELSE d[x]]

Del(d, k) == [x \in (DOMAIN d) \ {k} |-> d[x]]

ExperimentIds == 0..MaxClock

\* a non-default target accuracy a caller may pass to create_experiment (one
\* step of the settings slider above the default)
OtherTargetAccuracy == DefaultTargetAccuracy + 5

ConfigFields == {"enable_preprocessing", "combine_results", "target_accuracy"}

\* **kwargs of create_experiment: the keys given, and their values
KwargSamples ==
  { [given |-> {}, enable_preprocessing |-> TRUE, combine_results |-> TRUE,
     target_accuracy |-> DefaultTargetAccuracy],
    [given |-> ConfigFields, enable_preprocessing |-> FALSE,
     combine_results |-> FALSE, target_accuracy |-> OtherTargetAccuracy] }

AllGiven(cfg) ==
  [given |-> ConfigFields, enable_preprocessing |-> cfg.enable_preprocessing,
   combine_results |-> cfg.combine_results, target_accuracy |-> cfg.target_accuracy]

\* kwargs.get(key, default)
KwGet(kwargs, key, default) == IF key \in kwargs.given THEN kwargs[key] ELSE default

\* experiment_id = f"exp_{datetime.now().strftime('%Y%m%d_%H%M%S')}": the
\* current second, and nothing else
NewExperimentId == now

\* the experiment create_experiment stores (name, description and created_at
\* are carried along and never read back by load_experiment)
NewExperiment(engine_list, kwargs) ==
  [active_engines |-> engine_list,
   enable_preprocessing |->
     KwGet(kwargs, "enable_preprocessing", ocr_config.enable_preprocessing),
   combine_results |-> KwGet(kwargs, "combine_results", ocr_config.combine_results),
   target_accuracy |-> KwGet(kwargs, "target_accuracy", ocr_config.target_accuracy)]

StoreExperiment(engine_list, kwargs) ==
  experiments' = Put(experiments, NewExperimentId, NewExperiment(engine_list, kwargs))

CalledId(op, id, ret) ==
  Called(CallRecord(op, "", <<>>, id, ret, active_engines' # active_engines))

create_experiment(engine_list, kwargs) ==
  /\ StoreExperiment(engine_list, kwargs)
  /\ saved' = IF NewExperimentId \in DOMAIN saved THEN Del(saved, NewExperimentId)
              ELSE saved
  /\ UNCHANGED <<engines, active_engines, ocr_config, now>>
  /\ CalledId("create_experiment", NewExperimentId, TRUE)

Snapshot == [active_engines |-> active_engines, ocr_config |-> ocr_config]

save_current_config ==
  /\ StoreExperiment(get_active_engines, AllGiven(ocr_config))
  /\ saved' = IF NewExperimentId \in DOMAIN saved THEN saved
              ELSE Put(saved, NewExperimentId, Snapshot)
  /\ UNCHANGED <<engines, active_engines, ocr_config, now>>
  /\ CalledId("save_current_config", NewExperimentId, TRUE)

load_experiment(experiment_id) ==
  /\ IF experiment_id \notin DOMAIN experiments
     THEN /\ UNCHANGED <<active_engines, ocr_config>>
          /\ CalledId("load_experiment", experiment_id, FALSE)
     ELSE LET experiment == experiments[experiment_id]
          IN  /\ SetActive(experiment.active_engines)
              /\ ocr_config' =
                   [enable_preprocessing |-> experiment.enable_preprocessing,
                    combine_results |-> experiment.combine_results,
                    target_accuracy |-> experiment.target_accuracy]
              /\ CalledId("load_experiment", experiment_id, TRUE)
  /\ UNCHANGED <<engines, experiments, now, saved>>

delete_experiment(experiment_id) ==
  /\ UNCHANGED <<engines, active_engines, ocr_config, now>>
  /\ IF experiment_id \in DOMAIN experiments
     THEN /\ experiments' = Del(experiments, experiment_id)
          /\ CalledId("delete_experiment", experiment_id, TRUE)
     ELSE /\ UNCHANGED experiments
          /\ CalledId("delete_experiment", experiment_id, FALSE)
  /\ saved' = IF experiment_id \in DOMAIN saved THEN Del(saved, experiment_id) ELSE saved

\* OCRConfigManager.get_preset_configs
PresetConfigs ==
  { [active_engines |-> <<"tesseract">>, enable_preprocessing |-> TRUE,
     combine_results |-> FALSE],
    [active_engines |-> <<"paddle">>, enable_preprocessing |-> TRUE,
     combine_results |-> FALSE],
    [active_engines |-> <<"tesseract", "paddle">>, enable_preprocessing |-> TRUE,
     combine_results |-> TRUE],
    [active_engines |-> <<"tesseract", "paddle">>, enable_preprocessing |-> FALSE,
     combine_results |-> TRUE] }

\* the preset buttons of show_home_page
load_preset(preset) ==
  /\ SetActive(preset.active_engines)
  /\ ocr_config' = [ocr_config EXCEPT
                      !.enable_preprocessing = preset.enable_preprocessing,
                      !.combine_results = preset.combine_results]
  /\ Called(CallRecord("load_preset", "", preset.active_engines, -1, FALSE,
                       active_engines' # active_engines))
  /\ UNCHANGED <<engines, experiments, now, saved>>

\* a second of wall-clock time passes
Tick ==
  /\ now < MaxClock
  /\ now' = now + 1
  /\ UNCHANGED <<engines, active_engines, ocr_config, experiments, last, saved, budget>>


(***************************************************************************)
(* Part 2: MGX_template ExceptionHandler and OCRProcessor.process_file.    *)
(***************************************************************************)
VARIABLES
  exception_history,  \* ExceptionHandler.exception_history: the levels recorded
  handled,            \* history: handle_exception calls since the last clear_history
  exc_last,           \* the last exception-handler call
  pf                  \* the last process_file call: its input, result and effect

excVars == <<exception_history, handled, exc_last, pf>>

\* longest exception history explored
MaxHistory == 3

\* class ExceptionLevel
ExceptionLevel == {"LEVEL_1", "LEVEL_2", "LEVEL_3"}

\* a variant that keeps only the failures of file upload and OCR
AppendUnlessVisualization(level) ==
  exception_history' = IF level = "LEVEL_3" THEN exception_history
                       ELSE Append(exception_history, level)

\* exception_history.append(exc_info), as every handle_exception call does
RecordException(level) ==
  exception_history' = Append(exception_history, level)

handle_exception(level) ==
  /\ Len(exception_history) < MaxHistory
  /\ RecordException(level)
  /\ handled' = handled + 1
  /\ exc_last' = "handle_exception"
  /\ UNCHANGED pf

clear_history ==
  /\ exception_history' = <<>>
  /\ handled' = 0
  /\ exc_last' = "clear_history"
  /\ UNCHANGED pf

\* get_exception_summary: a counter per level, one pass over the history
RECURSIVE CountLevels(_, _)
CountLevels(history, summary) ==
  IF history = <<>> THEN summary
  ELSE CountLevels(Tail(history),
                   [summary EXCEPT ![Head(history)] = summary[Head(history)] + 1])

get_exception_summary ==
  CountLevels(exception_history, [level \in ExceptionLevel |-> 0])

RECURSIVE SumOver(_, _)
SumOver(f, S) ==
  IF S = {} THEN 0
  ELSE LET x == CHOOSE y \in S : TRUE IN f[x] + SumOver(f, S \ {x})

\* the files process_file is given: a PDF, a readable image, or bytes that
\* Image.open rejects
FileKinds == {"pdf", "image", "broken"}

\* _file_to_images: a PDF yields no image (_pdf_to_images returns []), an image
\* file yields one; "raise" when the bytes cannot be opened
file_to_images(file) ==
  CASE file = "pdf" -> [raised |-> FALSE, images |-> <<>>]
    [] file = "image" -> [raised |-> FALSE, images |-> <<0>>]
    [] OTHER -> [raised |-> TRUE, images |-> <<>>]

\* confidences an engine may report, in thousandths
ConfidenceSamples == {400, 450, 900}

\* what one engine does with one image: no result (None), or a result
NoResult == [engine |-> "", confidence |-> -1]

EngineOutcomes(n) ==
  {NoResult} \cup {[engine |-> n, confidence |-> c] : c \in ConfidenceSamples}

\* max(results, key=confidence): the first of the most confident results
MaxByConfidence(results) ==
  LET i == CHOOSE k \in 1..Len(results) :
             /\ \A j \in 1..Len(results) : results[j].confidence <= results[k].confidence
             /\ \A j \in 1..(k-1) : results[j].confidence < results[k].confidence
  IN  results[i]

AbsDiff(a, b) == IF a >= b THEN a - b ELSE b - a

\* _combine_results; 0.1 is 100 thousandths
SimilarConfidence == 100

combine_results(results) ==
  IF Len(results) = 1 THEN results[1]
  ELSE IF ~ocr_config.combine_results THEN MaxByConfidence(results)
  ELSE IF Len(results) = 2
          /\ AbsDiff(results[1].confidence, results[2].confidence) < SimilarConfidence
       THEN [engine |-> "Combined",
             confidence |-> (results[1].confidence + results[2].confidence) \div 2]
       ELSE MaxByConfidence(results)

\* OCREngineManager.process_image: the results of the active engines, in order,
\* without the engines that returned None; outcome[k] is what the k-th engine
\* that runs returns
engine_results(outcome) ==
  SelectSeq(outcome, LAMBDA r : r # NoResult)

\* what the engines may return for one image
PageOutcomes ==
  {o \in [1..Len(process_image_runs) -> UNION {EngineOutcomes(n) : n \in EngineNames}] :
     \A k \in 1..Len(o) : o[k] \in EngineOutcomes(process_image_runs[k])}

\* the loop of process_file over the images: one combined result per image
\* whose engines returned anything, tagged with the page number
RECURSIVE PageLoop(_, _, _)
PageLoop(images, outcomes, all_results) ==
  IF images = <<>> THEN all_results
  ELSE LET page_results == engine_results(Head(outcomes))
       IN  PageLoop(Tail(images), Tail(outcomes),
                    IF page_results = <<>> THEN all_results
                    ELSE Append(all_results,
                                [page |-> Head(images),
                                 result |-> combine_results(page_results)]))

\* the record kept of a process_file call: the file, whether OCR raised, the
\* length of the exception history before the call, whether the except branch
\* ran, whether an exception left the call, and the list returned
ProcessFileRecord(file, ocr_raises, failed, ret) ==
  [op |-> "process_file", file |-> file, ocr_raises |-> ocr_raises,
   before |-> Len(exception_history), failed |-> failed, raised |-> FALSE,
   ret |-> ret]

NoProcessFile ==
  [op |-> "none", file |-> "", ocr_raises |-> FALSE, before |-> 0,
   failed |-> FALSE, raised |-> FALSE, ret |-> <<>>]

\* a variant that reports the failure as a file-upload failure
ProcessFileFailedAsUpload(file, ocr_raises) ==
  /\ RecordException("LEVEL_1")
  /\ handled' = handled + 1
  /\ pf' = ProcessFileRecord(file, ocr_raises, TRUE, <<>>)

\* the except branch of process_file: handle_exception(LEVEL_2, ...), then
\* return []
ProcessFileFailed(file, ocr_raises) ==
  /\ RecordException("LEVEL_2")
  /\ handled' = handled + 1
  /\ pf' = ProcessFileRecord(file, ocr_raises, TRUE, <<>>)

\* process_file(file_content, filename); ocr_raises: whether OCR of a page
\* raises (outside the engines, which swallow their own errors)
process_file(file, outcomes, ocr_raises) ==
  /\ Len(exception_history) < MaxHistory
  /\ LET conv == file_to_images(file)
     IN  /\ Len(outcomes) = Len(conv.images)
         /\ IF conv.raised \/ (ocr_raises /\ conv.images # <<>>)
            THEN ProcessFileFailed(file, ocr_raises)
            ELSE /\ pf' = ProcessFileRecord(file, ocr_raises, FALSE,
                                            PageLoop(conv.images, outcomes, <<>>))
                 /\ UNCHANGED <<exception_history, handled>>
  /\ exc_last' = "process_file"

InitExc ==
  /\ exception_history = <<>>
  /\ handled = 0
  /\ exc_last = "none"
  /\ pf = NoProcessFile

\* engine lists a caller passes to the configuration manager
ConfigLists == {<<"tesseract", "tesseract">>, <<"easyocr", "paddle">>}

(***************************************************************************)
(* Part 3: one vision-model request (ocr_processor.py, diary_extractor.py).*)
(* A request is extract_text_from_image, analyze_food_content or           *)
(* _classify_page; each calls the primary model inside try and the         *)
(* fallback model inside the except branch.                                *)
(***************************************************************************)
VARIABLES
  ocrmypdf_available,  \* OCRProcessor.ocrmypdf_available, fixed by __init__
  vreq,                \* the request being served: its kind and arguments
  vpc,                 \* where the request stands
  vcalls,              \* history: the model calls of this request, with outcomes
  vsteps,              \* history: the branches this request went through
  vresult              \* how the request ended

visionVars == <<ocrmypdf_available, vreq, vpc, vcalls, vsteps, vresult>>

primary_vision_model == "gpt-4o-mini"

fallback_vision_model == "gpt-4o"

RequestKinds == {"extract_text_from_image", "analyze_food_content", "_classify_page"}

\* what a chat-completion call does: it answers, or raises with a message that
\* names an invalid key, an exhausted quota, or something else
CallOutcomes == {"ok", "invalid_api_key", "quota", "other"}

NoRequest == [kind |-> "none", prefer_ocrmypdf |-> FALSE]

InitVision ==
  /\ ocrmypdf_available \in BOOLEAN
  /\ vreq = NoRequest
  /\ vpc = "idle"
  /\ vcalls = <<>>
  /\ vsteps = <<>>
  /\ vresult = "none"

\* the value returned by the outer except branch of extract_text_from_image
\* and analyze_food_content for an exception with the given message
FailureString(kind, message) ==
  LET prefix == IF kind = "extract_text_from_image" THEN "OCR failed: "
                ELSE "Food analysis failed: "
  IN  CASE message = "invalid_api_key" -> prefix \o "API key invalid or expired."
        [] message = "quota" -> prefix \o "quota exceeded or billing issue."
        [] OTHER -> prefix \o message

\* a request enters; extract_text_from_image tries ocrmypdf first when asked
\* to and when it is installed
StartRequest(kind, prefer_ocrmypdf) ==
  /\ vpc \in {"idle", "done"}
  /\ prefer_ocrmypdf => kind = "extract_text_from_image"
  /\ vreq' = [kind |-> kind, prefer_ocrmypdf |-> prefer_ocrmypdf]
  /\ vcalls' = <<>>
  /\ vsteps' = <<>>
  /\ vresult' = "none"
  /\ vpc' = IF kind = "extract_text_from_image"
            THEN IF prefer_ocrmypdf /\ ocrmypdf_available THEN "ocrmypdf" ELSE "encode"
            ELSE "primary"
  /\ UNCHANGED ocrmypdf_available

\* the ocrmypdf branch: its text is returned, or any exception falls through
\* to the OpenAI branch
\* a variant without the "except Exception: pass" of the ocrmypdf branch
RunOcrmypdfUncaught(succeeds) ==
  /\ vpc = "ocrmypdf"
  /\ vsteps' = Append(vsteps, IF succeeds THEN "ocrmypdf" ELSE "ocrmypdf failed")
  /\ vpc' = "done"
  /\ vresult' = IF succeeds THEN "ocrmypdf text" ELSE "raised"
  /\ UNCHANGED <<ocrmypdf_available, vreq, vcalls>>

RunOcrmypdf(succeeds) ==
  /\ vpc = "ocrmypdf"
  /\ vsteps' = Append(vsteps, IF succeeds THEN "ocrmypdf" ELSE "ocrmypdf failed")
  /\ IF succeeds
     THEN vpc' = "done" /\ vresult' = "ocrmypdf text"
     ELSE vpc' = "encode" /\ UNCHANGED vresult
  /\ UNCHANGED <<ocrmypdf_available, vreq, vcalls>>

\* encode_image / encode_pil_image inside the outer try
EncodeImage(succeeds) ==
  /\ vpc = "encode"
  /\ vsteps' = Append(vsteps, IF succeeds THEN "encode" ELSE "encode failed")
  /\ IF succeeds
     THEN vpc' = "primary" /\ UNCHANGED vresult
     ELSE vpc' = "done" /\ vresult' = FailureString(vreq.kind, "other")
  /\ UNCHANGED <<ocrmypdf_available, vreq, vcalls>>

\* a variant that calls the primary model again when it raised
CallPrimaryAgain(outcome) ==
  /\ vpc = "primary"
  /\ vcalls' = Append(vcalls, [model |-> primary_vision_model, outcome |-> outcome])
  /\ vsteps' = Append(vsteps, "primary")
  /\ IF outcome = "ok"
     THEN vpc' = "done" /\ vresult' = "response"
     ELSE vpc' = "primary" /\ UNCHANGED vresult
  /\ UNCHANGED <<ocrmypdf_available, vreq>>

\* try: response = _chat_with_image(..., primary_vision_model)
CallPrimary(outcome) ==
  /\ vpc = "primary"
  /\ vcalls' = Append(vcalls, [model |-> primary_vision_model, outcome |-> outcome])
  /\ vsteps' = Append(vsteps, "primary")
  /\ IF outcome = "ok"
     THEN vpc' = "done" /\ vresult' = "response"
     ELSE vpc' = "fallback" /\ UNCHANGED vresult
  /\ UNCHANGED <<ocrmypdf_available, vreq>>

\* except: response = _chat_with_image(..., fallback_vision_model); when this
\* raises too, the outer except of OCRProcessor turns the exception into a
\* string, and _classify_page lets it leave the call
CallFallback(outcome) ==
  /\ vpc = "fallback"
  /\ vcalls' = Append(vcalls, [model |-> fallback_vision_model, outcome |-> outcome])
  /\ vsteps' = Append(vsteps, "fallback")
  /\ vpc' = "done"
  /\ vresult' = IF outcome = "ok" THEN "response"
                ELSE IF vreq.kind = "_classify_page" THEN "raised"
                ELSE FailureString(vreq.kind, outcome)
  /\ UNCHANGED <<ocrmypdf_available, vreq>>

(***************************************************************************)
(* Part 4: the jokey_ocr plugin pipeline (data_pipeline.py, plugins/).     *)
(*                                                                         *)
(* Python values are records of one shape each, so that a value of any     *)
(* type can stand where the code accepts Any:                              *)
(*   a coordinate   [kind, v]         kind: int, float (v in tenths),      *)
(*                                    numstr ("12"), str ("ab"), none      *)
(*   a box element  [kind, s, pt]     a scalar s or a list pt of scalars   *)
(*   a box          [kind, elems]     kind: list, ndarray, str, none       *)
(*   an item        [kind, keys, ...] a dict with the keys in keys, or     *)
(*                                    something that is not a dict         *)
(*   an output      [kind, keys, ...] a dict, None, or something else      *)
(* A field whose key is absent holds the default value of its type.        *)
(***************************************************************************)
VARIABLES
  pipeline,      \* main: the plugin names of --pipeline, in order
  cfg,           \* main: what the command line and --plugin_cfg configure
  pc,            \* main: where the run stands
  idx,           \* main: the number of plugins whose output was validated
  out,           \* main: the variable out
  err,           \* the exception that ended the run ("none": no exception)
  calls,         \* history: the process calls, with what each received and
                 \*          returned and how the validation of its output ended
  written,       \* whether the output JSON file was written
  vin,           \* the argument of one validate_plugin_output call
  vret           \* what that call did: the exception raised and out afterwards

pipelineVars == <<pipeline, cfg, pc, idx, out, err, calls, written, vin, vret>>

\* longest --pipeline
MaxPipeline == 2
\* most items of an output handed to validate_plugin_output on its own
MaxItems == 2

Min(S) == CHOOSE x \in S : \A y \in S : x <= y

Scalar(k, v) == [kind |-> k, v |-> v]

NoScalar == Scalar("none", 0)

IntScalar(v) == Scalar("int", v)

\* a number (or another scalar) as an element of a box
Num(s) == [kind |-> "scalar", s |-> s, pt |-> <<>>]

\* a list or tuple as an element of a box
Pt(coords) == [kind |-> "list", s |-> NoScalar, pt |-> coords]

Box(k, elems) == [kind |-> k, elems |-> elems]

NoBox == Box("none", <<>>)

\* isinstance(v, (int, float))
IsNumber(e) == e.kind = "scalar" /\ e.s.kind \in {"int", "float"}

\* isinstance(pt, (list, tuple)) and len(pt) == 2
IsPoint(e) == e.kind = "list" /\ Len(e.pt) = 2

\* int(x): truncation toward zero for a float, parsing for a string
IntOf(s) ==
  CASE s.kind = "float" -> IF s.v >= 0 THEN s.v \div 10 ELSE -((-s.v) \div 10)
    [] OTHER -> s.v

\* the exception int(x) raises
IntRaises(s) ==
  CASE s.kind = "str" -> "ValueError"
    [] s.kind = "none" -> "TypeError"
    [] OTHER -> "none"

\* [x1, y1, x2, y2] -> [[x1, y1], [x2, y1], [x2, y2], [x1, y2]]
RectToPoly(r) ==
  << Pt(<<r[1].s, r[2].s>>), Pt(<<r[3].s, r[2].s>>),
     Pt(<<r[3].s, r[4].s>>), Pt(<<r[1].s, r[4].s>>) >>

\* box.tolist() for a numpy array or a torch tensor
ToList(box) == IF box.kind = "ndarray" THEN Box("list", box.elems) ELSE box

\* a list of four numbers is read as the rectangle [x1, y1, x2, y2]
IsRect(box) ==
  /\ box.kind = "list"
  /\ Len(box.elems) = 4
  /\ \A i \in 1..4 : IsNumber(box.elems[i])

SquareToPoly(box) == IF IsRect(box) THEN Box("list", RectToPoly(box.elems)) ELSE box

IsPoly4(box) ==
  /\ box.kind = "list"
  /\ Len(box.elems) = 4
  /\ \A i \in 1..4 : IsPoint(box.elems[i])

\* the k-th coordinate int() is applied to: pt[0] and pt[1] of each point in turn
Coord(box, k) == box.elems[(k + 1) \div 2].pt[2 - (k % 2)]

BadCoords(box) == {k \in 1..8 : IntRaises(Coord(box, k)) # "none"}

\* [(int(pt[0]), int(pt[1])) for pt in box]
IntPoints(box) ==
  Box("list", [i \in 1..4 |-> Pt(<<IntScalar(IntOf(box.elems[i].pt[1])),
                                  IntScalar(IntOf(box.elems[i].pt[2]))>>)])

\* the check and the conversion of to_poly4_any, for the argument given and
\* the list it was turned into
Poly4Result(given, box) ==
  IF ~IsPoly4(box) THEN [raised |-> "ValueError", box |-> given]
  ELSE IF BadCoords(box) # {}
  THEN [raised |-> IntRaises(Coord(box, Min(BadCoords(box)))), box |-> given]
  ELSE [raised |-> "none", box |-> IntPoints(box)]

\* to_poly4_any(box): the exception it raises and the polygon it returns
to_poly4_any(box) == Poly4Result(box, SquareToPoly(ToList(box)))

ItemKeys ==
  {"index", "box", "orig", "corr", "changed", "ocr_score", "corr_conf",
   "action", "reason", "source", "char_agreement"}

\* a dict with no key
EmptyItem ==
  [kind |-> "dict", keys |-> {}, box |-> NoBox, index |-> 0, orig |-> <<>>,
   corr |-> <<>>, changed |-> FALSE, action |-> "", source |-> "",
   char_agreement |-> 0]

\* an element of items that is not a dict
NotAnItem == [EmptyItem EXCEPT !.kind = "other"]

\* it.setdefault(key, ...) for each field: the value is set when the key is absent
SetDefaultIndex(it, v) ==
  IF "index" \in it.keys THEN it
  ELSE [it EXCEPT !.keys = @ \cup {"index"}, !.index = v]

SetDefaultOrig(it, v) ==
  IF "orig" \in it.keys THEN it
  ELSE [it EXCEPT !.keys = @ \cup {"orig"}, !.orig = v]

SetDefaultCorr(it, v) ==
  IF "corr" \in it.keys THEN it
  ELSE [it EXCEPT !.keys = @ \cup {"corr"}, !.corr = v]

SetDefaultChanged(it, v) ==
  IF "changed" \in it.keys THEN it
  ELSE [it EXCEPT !.keys = @ \cup {"changed"}, !.changed = v]

SetDefaultAction(it, v) ==
  IF "action" \in it.keys THEN it
  ELSE [it EXCEPT !.keys = @ \cup {"action"}, !.action = v]

SetDefaultSource(it, v) ==
  IF "source" \in it.keys THEN it
  ELSE [it EXCEPT !.keys = @ \cup {"source"}, !.source = v]

\* it["box"] = v
SetBox(it, v) == [it EXCEPT !.keys = @ \cup {"box"}, !.box = v]

\* it["source"] = v
SetSource(it, v) == [it EXCEPT !.keys = @ \cup {"source"}, !.source = v]

\* it["action"] = v
SetAction(it, v) == [it EXCEPT !.keys = @ \cup {"action"}, !.action = v]

\* the defaults validate_plugin_output gives an item whose box was converted
NormaliseOrig(it) == SetDefaultOrig(it, it.corr)

NormaliseCorr(it) == SetDefaultCorr(it, it.orig)

NormaliseChanged(it) == SetDefaultChanged(it, it.orig # it.corr)

NormaliseItem(it, i) ==
  SetDefaultSource(
    SetDefaultAction(
      NormaliseChanged(NormaliseCorr(NormaliseOrig(SetDefaultIndex(it, i)))),
      "keep"),
    "plugins")

\* it["box"] = to_poly4_any(it["box"]) and the rest of the loop body, for the
\* outcome p of to_poly4_any
ValidateBoxed(it, i, p) ==
  IF p.raised # "none" THEN [raised |-> p.raised, it |-> it]
  ELSE [raised |-> "none", it |-> NormaliseItem([it EXCEPT !.box = p.box], i)]

\* the body of validate_plugin_output's loop for items[i] (i counts from 0)
ValidateItem(it, i) ==
  IF it.kind # "dict" THEN [raised |-> "ValueError", it |-> it]
  ELSE IF "box" \notin it.keys THEN [raised |-> "ValueError", it |-> it]
  ELSE ValidateBoxed(it, i, to_poly4_any(it.box))

MetaKeys == {"stage", "version", "table_file", "table_format"}

Meta(stage, version) == [keys |-> {"stage", "version"}, stage |-> stage, version |-> version]

EmptyMeta == [keys |-> {}, stage |-> "", version |-> ""]

SetDefaultStage(meta, v) ==
  IF "stage" \in meta.keys THEN meta
  ELSE [meta EXCEPT !.keys = @ \cup {"stage"}, !.stage = v]

SetDefaultVersion(meta, v) ==
  IF "version" \in meta.keys THEN meta
  ELSE [meta EXCEPT !.keys = @ \cup {"version"}, !.version = v]

\* meta["stage"] = stage; meta["version"] = version
SetStage(meta, stage, version) ==
  [meta EXCEPT !.keys = @ \cup {"stage", "version"}, !.stage = stage, !.version = version]

\* a dict with no key
EmptyOutput ==
  [kind |-> "dict", keys |-> {}, items_kind |-> "list", items |-> <<>>,
   meta |-> EmptyMeta, tables |-> <<>>]

\* the value None where an output is expected
NoneOutput == [EmptyOutput EXCEPT !.kind = "none"]

\* {"items": items, "meta": meta}
Output(items, meta) ==
  [EmptyOutput EXCEPT !.keys = {"items", "meta"}, !.items = items, !.meta = meta]

\* out.get("items", [])
GetItems(o) == IF "items" \in o.keys THEN o.items ELSE <<>>

\* out.setdefault("meta", {})
SetDefaultMeta(o) == IF "meta" \in o.keys THEN o ELSE [o EXCEPT !.keys = @ \cup {"meta"}]

\* out.setdefault("tables", [])
SetDefaultTables(o) == IF "tables" \in o.keys THEN o ELSE [o EXCEPT !.keys = @ \cup {"tables"}]

\* the loop of validate_plugin_output from items[i] on (i counts from 0): the
\* items before the one that raises stay normalised
RECURSIVE ValidateItems(_, _)
ValidateItems(items, i) ==
  IF i >= Len(items) THEN [raised |-> "none", items |-> items]
  ELSE LET r == ValidateItem(items[i + 1], i) IN
    IF r.raised # "none" THEN [raised |-> r.raised, items |-> items]
    ELSE ValidateItems([items EXCEPT ![i + 1] = r.it], i + 1)

\* validate_plugin_output(out, require_boxes=True): the exception it raises
\* and out as the call leaves it
validate_plugin_output(o) ==
  IF o.kind # "dict" THEN [raised |-> "ValueError", out |-> o]
  ELSE IF "items" \in o.keys /\ o.items_kind # "list"
       THEN [raised |-> "ValueError", out |-> o]
  ELSE LET r == ValidateItems(GetItems(o), 0)
           looped == IF "items" \in o.keys THEN [o EXCEPT !.items = r.items] ELSE o
       IN  IF r.raised # "none" THEN [raised |-> r.raised, out |-> looped]
           ELSE LET m == SetDefaultMeta(SetDefaultTables(looped)) IN
             [raised |-> "none",
              out |-> [m EXCEPT !.meta = SetDefaultVersion(SetDefaultStage(@, "plugins"), "v1")]]

\* what process does: it raises, or returns a value (None included)
\* (designed: the tables a table plugin got from its model during the call)
Raised(e) == [raised |-> e, ret |-> NoneOutput, designed |-> <<>>]

Returned(o) == [raised |-> "none", ret |-> o, designed |-> <<>>]

\* bool(upstream), as in "upstream or {...}": None and the empty dict are false
Truthy(o) == o.kind = "other" \/ (o.kind = "dict" /\ o.keys # {})

\* the out main starts from, and the default upstream of the model plugins
StartOutput == Output(<<>>, Meta("start", "v1"))

(***************************************************************************)
(* PaddleocrPlugin.                                                        *)
(***************************************************************************)
IntPoly == Box("list", << Pt(<<IntScalar(0), IntScalar(0)>>), Pt(<<IntScalar(9), IntScalar(0)>>),
                          Pt(<<IntScalar(9), IntScalar(5)>>), Pt(<<IntScalar(0), IntScalar(5)>>) >>)

FloatRect == Box("list", << Num(Scalar("float", 15)), Num(Scalar("float", -15)),
                            Num(Scalar("float", 99)), Num(IntScalar(7)) >>)

ArrayPoly == Box("ndarray", IntPoly.elems)

ArrayRect == Box("ndarray", << Num(IntScalar(1)), Num(IntScalar(2)),
                               Num(IntScalar(8)), Num(IntScalar(6)) >>)

ThreePoints == Box("ndarray", SubSeq(IntPoly.elems, 1, 3))

\* the texts of the model, as lists of characters
Texts == { <<>>, <<"a", "b">>, <<"a", "c">>, <<"x", "y">> }

\* what PaddleOCR.predict does: it raises, or returns boxes with their texts
\* (rec_polys or rec_boxes zipped with rec_texts)
OcrLine(box, txt) == [box |-> box, txt |-> txt]

OcrResult(lines) == [raised |-> "none", lines |-> lines]

OcrOutcomes ==
  { [raised |-> "RuntimeError", lines |-> <<>>],
    OcrResult(<<>>),
    OcrResult(<<OcrLine(ArrayPoly, <<"a", "b">>)>>),
    OcrResult(<<OcrLine(ArrayPoly, <<"a", "b">>), OcrLine(ArrayRect, <<>>)>>),
    OcrResult(<<OcrLine(ArrayPoly, <<"x", "y">>), OcrLine(ThreePoints, <<"a", "b">>)>>) }

PaddleItem(i, line) ==
  [EmptyItem EXCEPT !.keys = ItemKeys \ {"char_agreement"}, !.index = i,
                    !.box = to_poly4_any(line.box).box, !.orig = line.txt,
                    !.corr = line.txt, !.changed = FALSE, !.action = "keep",
                    !.source = "paddleocr"]

PaddleocrProcess(res) ==
  LET bad == {i \in 1..Len(res.lines) : to_poly4_any(res.lines[i].box).raised # "none"}
      o == Output([i \in 1..Len(res.lines) |-> PaddleItem(i - 1, res.lines[i])],
                  Meta("paddleocr", "v5"))
      v == validate_plugin_output(o)
  IN  IF res.raised # "none" THEN Raised(res.raised)
      ELSE IF bad # {} THEN Raised(to_poly4_any(res.lines[Min(bad)].box).raised)
      ELSE IF v.raised # "none" THEN Raised(v.raised)
      ELSE Returned(v.out)

(***************************************************************************)
(* ChatgptRefinePlugin.                                                    *)
(***************************************************************************)
\* "not it['box']": None and the empty list are false
BoxFalsy(box) == box.kind = "none" \/ (box.kind = "list" /\ Len(box.elems) = 0)

\* the body of the normalisation loop for items[i] (i counts from 0)
GptRefineItem(it, i, prev_items) ==
  IF it.kind # "dict" THEN it
  ELSE
    LET a == SetDefaultIndex(it, i)
        hasprev == i < Len(prev_items)
        prev == prev_items[i + 1]
        b == IF /\ ("box" \notin a.keys \/ BoxFalsy(a.box))
                /\ hasprev
                /\ prev.kind = "dict"
                /\ "box" \in prev.keys
             THEN SetBox(a, prev.box) ELSE a
        changed_flag == "changed" \in b.keys /\ b.changed
        action == IF "action" \in b.keys THEN b.action ELSE ""
        refined == \/ changed_flag
                   \/ action \in {"fix", "drop", "review"}
                   \/ ("corr" \in b.keys /\ ("orig" \notin b.keys \/ b.corr # b.orig))
    IN  IF refined THEN SetSource(b, "gpt_refine")
        ELSE IF "source" \notin b.keys /\ hasprev /\ prev.kind = "dict"
        THEN SetSource(b, IF "source" \in prev.keys THEN prev.source ELSE "gpt_refine")
        ELSE SetDefaultSource(b, "gpt_refine")

\* what the chat-completion call gives: an HTTP error, a last line that is
\* not a JSON object, or the parsed JSON object
LlmResponse(kind, o) == [kind |-> kind, out |-> o]

\* an item as the model may send it back: texts only
BareItem(it) ==
  [EmptyItem EXCEPT !.keys = {"orig", "corr"}, !.orig = it.orig, !.corr = it.corr]

\* the first item corrected, the others as they were
FixFirst(items) ==
  [i \in 1..Len(items) |->
     IF i = 1 THEN [items[i] EXCEPT !.keys = @ \cup {"corr", "changed", "action"},
                                    !.corr = <<"a", "c">>, !.changed = TRUE,
                                    !.action = "fix"]
     ELSE items[i]]

RefineResponses(prev_json) ==
  LET items == GetItems(prev_json)
      bare == [i \in 1..Len(items) |-> BareItem(items[i])]
  IN  { LlmResponse("http_error", EmptyOutput),
        LlmResponse("not_json", EmptyOutput),
        LlmResponse("json", prev_json),
        LlmResponse("json", [prev_json EXCEPT !.items = FixFirst(items)]),
        LlmResponse("json", [EmptyOutput EXCEPT !.keys = {"items"}, !.items = bare]),
        LlmResponse("json", [EmptyOutput EXCEPT !.keys = {"items"},
                                                !.items = Append(bare, BareItem(EmptyItem))]),
        LlmResponse("json", [EmptyOutput EXCEPT !.keys = {"meta"}, !.meta = prev_json.meta]),
        LlmResponse("json", [EmptyOutput EXCEPT !.keys = {"items"}, !.items_kind = "none"]) }

GptRefineProcess(upstream, response) ==
  LET prev_json == IF Truthy(upstream) THEN upstream ELSE StartOutput
      o == response.out
      m == [SetDefaultMeta(o) EXCEPT
              !.meta = SetDefaultVersion(SetDefaultStage(@, "gpt_refine"), "v4o")]
      prev_items == GetItems(prev_json)
      n == IF "items" \in m.keys /\ m.items_kind = "list"
           THEN [m EXCEPT !.items = [i \in 1..Len(m.items) |->
                                       GptRefineItem(m.items[i], i - 1, prev_items)]]
           ELSE m
      v == validate_plugin_output(n)
  IN  CASE response.kind = "http_error" -> Raised("HTTPError")
        [] response.kind = "not_json" -> Raised("ValueError")
        [] "items" \in o.keys /\ o.items_kind = "none" -> Raised("TypeError")
        [] v.raised # "none" -> Raised(v.raised)
        [] OTHER -> Returned(v.out)

(***************************************************************************)
(* CharAgreementPlugin.                                                    *)
(***************************************************************************)
Min3(a, b, c) == Min({a, b, c})

Max3(a, b, c) == CHOOSE x \in {a, b, c} : \A y \in {a, b, c} : x >= y

RECURSIVE _levenshtein(_, _)
_levenshtein(a, b) ==
  IF Len(a) = 0 THEN Len(b)
  ELSE IF Len(b) = 0 THEN Len(a)
  ELSE Min3(_levenshtein(Tail(a), b) + 1,
            _levenshtein(a, Tail(b)) + 1,
            _levenshtein(Tail(a), Tail(b)) + (IF Head(a) = Head(b) THEN 0 ELSE 1))

\* char_agreement values are kept in ten-thousandths: round(x, 4)
CaScale == 10000

t_review == 7000

t_fix == 4000

_char_agreement(orig, corr) ==
  IF Len(orig) = 0 /\ Len(corr) = 0 THEN CaScale
  ELSE LET dist == _levenshtein(orig, corr)
           denom == Max3(Len(orig), Len(corr), 1)
       IN  (2 * CaScale * (denom - dist) + denom) \div (2 * denom)

\* the body of the loop of process for one item
CharAgreementItem(it, set_action) ==
  LET orig == it.orig
      corr == IF Len(it.corr) # 0 THEN it.corr ELSE orig
      ca == _char_agreement(orig, corr)
      scored == [it EXCEPT !.keys = @ \cup {"char_agreement"}, !.char_agreement = ca]
  IN  IF ~set_action THEN scored
      ELSE IF ca < t_fix THEN SetAction(scored, "fix")
      ELSE IF ca < t_review THEN SetAction(scored, "review")
      ELSE SetDefaultAction(scored, "keep")

\* the statements after the scoring of an item are inside the loop: process
\* returns at the end of the first iteration, and leaves the loop without a
\* return statement when there is no item
CharAgreementProcess(upstream, set_action) ==
  LET o == IF Truthy(upstream) THEN upstream ELSE Output(<<>>, EmptyMeta)
      items == IF o.items_kind = "list" THEN GetItems(o) ELSE <<>>
      scored == [o EXCEPT !.items = [items EXCEPT ![1] = CharAgreementItem(@, set_action)]]
      v == validate_plugin_output(scored)
  IN  IF Len(items) = 0 THEN Returned(NoneOutput)
      ELSE IF v.raised # "none" THEN Raised(v.raised)
      ELSE Returned([SetDefaultMeta(v.out) EXCEPT !.meta = SetStage(@, "char_agreement", "v1")])

(***************************************************************************)
(* GptTableGenPlugin, and AliTableGenPlugin which it mirrors.              *)
(***************************************************************************)
\* what _design_tables gets from the model
TableResponses == {"http_error", "not_json", "no_tables", "tables"}

\* spec.get("tables", []) for a reply that holds a 'tables' array
DesignedTables(response) == IF response = "tables" THEN <<"line_items", "totals">> ELSE <<>>

\* the table rendering the plugin is configured with: no output file, a
\* supported format, an unsupported format
TableOuts == {"none", "xlsx", "other"}

TableGenProcess(name, upstream, response, table_out) ==
  LET base == IF Truthy(upstream) THEN upstream ELSE StartOutput
      staged == [SetDefaultMeta(base) EXCEPT !.meta = SetStage(@, name, "v1")]
      rendered == IF table_out = "none" THEN staged
                  ELSE [staged EXCEPT !.meta.keys = @ \cup {"table_file", "table_format"}]
      v == validate_plugin_output(rendered)
  IN  CASE response = "http_error" -> Raised("HTTPError")
        [] response \in {"not_json", "no_tables"} -> Raised("ValueError")
        [] table_out = "other" -> Raised("ValueError")
        [] v.raised # "none" -> Raised(v.raised)
        [] OTHER -> [Returned(v.out) EXCEPT !.designed = DesignedTables(response)]

GptTableGenProcess(upstream, response, table_out) ==
  TableGenProcess("gpt_table", upstream, response, table_out)

AliTableGenProcess(upstream, response, table_out) ==
  TableGenProcess("ali_table", upstream, response, table_out)

(***************************************************************************)
(* data_pipeline.main.                                                     *)
(***************************************************************************)
PluginNames == {"paddleocr", "gpt_refine", "char_agreement", "gpt_table", "ali_table", "nosuch"}

\* the plugins _get builds only with an api_key in --plugin_cfg
NeedsApiKey == {"gpt_refine", "gpt_table", "ali_table"}

\* the configurations of a run: whether --plugin_cfg holds the api keys,
\* --char_set_action, the table rendering, and whether --out_json is given
Configs ==
  [api_keys : {{}, NeedsApiKey}, char_set_action : BOOLEAN,
   table_out : TableOuts, out_json : BOOLEAN]

Pipelines == UNION {[1..k -> PluginNames] : k \in 0..MaxPipeline}

\* _get(name) raises ValueError
GetRaises(name, c) ==
  \/ name \notin {"paddleocr", "gpt_refine", "char_agreement", "gpt_table", "ali_table"}
  \/ name \in NeedsApiKey /\ name \notin c.api_keys

NotValidated == [called |-> FALSE, raised |-> "none", out |-> NoneOutput]

InitPipeline ==
  /\ pipeline \in Pipelines
  /\ cfg \in Configs
  /\ pc = "build"
  /\ idx = 0
  /\ out = NoneOutput
  /\ err = "none"
  /\ calls = <<>>
  /\ written = FALSE
  /\ vin = NoneOutput
  /\ vret = NotValidated

\* pipeline = [_get(n) for n in plugin_names]; out = {"items": [], "meta": {...}}
Build ==
  /\ pc = "build"
  /\ IF \E i \in 1..Len(pipeline) : GetRaises(pipeline[i], cfg)
     THEN pc' = "failed" /\ err' = "ValueError" /\ UNCHANGED out
     ELSE /\ pc' = IF Len(pipeline) = 0 THEN "write" ELSE "process"
          /\ out' = StartOutput
          /\ UNCHANGED err
  /\ UNCHANGED <<pipeline, cfg, idx, calls, written, vin, vret>>

CallEntry(name, received, r) ==
  [name |-> name, received |-> received, raised |-> r.raised,
   returned |-> r.ret, designed |-> r.designed, validated |-> "no"]

\* out = plugin.process(img, upstream=out), for the plugin of the given name
\* and what its process does with out
Process(name, r) ==
  /\ pc = "process"
  /\ pipeline[idx + 1] = name
  /\ calls' = Append(calls, CallEntry(name, out, r))
  /\ IF r.raised # "none"
     THEN pc' = "failed" /\ err' = r.raised /\ UNCHANGED out
     ELSE pc' = "validate" /\ out' = r.ret /\ UNCHANGED err
  /\ UNCHANGED <<pipeline, cfg, idx, written, vin, vret>>

ProcessPaddleocr == \E res \in OcrOutcomes : Process("paddleocr", PaddleocrProcess(res))

ProcessGptRefine ==
  \E response \in RefineResponses(IF Truthy(out) THEN out ELSE StartOutput) :
    Process("gpt_refine", GptRefineProcess(out, response))

ProcessCharAgreement ==
  Process("char_agreement", CharAgreementProcess(out, cfg.char_set_action))

ProcessGptTable ==
  \E response \in TableResponses :
    Process("gpt_table", GptTableGenProcess(out, response, cfg.table_out))

ProcessAliTable ==
  \E response \in TableResponses :
    Process("ali_table", AliTableGenProcess(out, response, cfg.table_out))

\* a variant of main without the validation of the plugin's output
ValidateOutputSkipped ==
  /\ pc = "validate"
  /\ idx' = idx + 1
  /\ pc' = IF idx + 1 = Len(pipeline) THEN "write" ELSE "process"
  /\ UNCHANGED <<pipeline, cfg, out, err, calls, written, vin, vret>>

\* validate_plugin_output(out, require_boxes=True), then the next plugin
ValidateOutput ==
  /\ pc = "validate"
  /\ LET v == validate_plugin_output(out) IN
       /\ out' = v.out
       /\ calls' = [calls EXCEPT ![Len(calls)].validated =
                                    IF v.raised = "none" THEN "ok" ELSE v.raised]
       /\ IF v.raised # "none"
          THEN pc' = "failed" /\ err' = v.raised /\ UNCHANGED idx
          ELSE /\ idx' = idx + 1
               /\ pc' = IF idx + 1 = Len(pipeline) THEN "write" ELSE "process"
               /\ UNCHANGED err
  /\ UNCHANGED <<pipeline, cfg, written, vin, vret>>

\* if args.out_json: json.dump(out, f)
WriteJson ==
  /\ pc = "write"
  /\ written' = cfg.out_json
  /\ pc' = "done"
  /\ UNCHANGED <<pipeline, cfg, idx, out, err, calls, vin, vret>>

(***************************************************************************)
(* validate_plugin_output on its own.                                      *)
(***************************************************************************)
NumStrPoly == Box("list", [i \in 1..4 |-> Pt(<<Scalar("numstr", i), Scalar("numstr", 2 * i)>>)])

StrPoly == Box("list", [i \in 1..4 |-> Pt(<<Scalar("str", 0), IntScalar(i)>>)])

NonePoly == Box("list", [i \in 1..4 |-> Pt(<<IntScalar(i), NoScalar>>)])

ThreeNumbers == Box("list", SubSeq(FloatRect.elems, 1, 3))

MixedList == Box("list", << Num(IntScalar(1)), Num(IntScalar(2)), Pt(<<IntScalar(3), IntScalar(4)>>),
                            Num(IntScalar(5)) >>)

BoxSamples ==
  { IntPoly, FloatRect, ArrayPoly, ArrayRect, ThreePoints, NumStrPoly, StrPoly,
    NonePoly, ThreeNumbers, MixedList, Box("str", <<>>), NoBox, Box("list", <<>>) }

ItemSamples ==
  {SetBox(EmptyItem, b) : b \in BoxSamples}
    \cup { EmptyItem, NotAnItem,
           [EmptyItem EXCEPT !.keys = {"corr"}, !.corr = <<"a", "b">>],
           [SetBox(EmptyItem, IntPoly) EXCEPT !.keys = @ \cup {"orig", "corr", "index"},
                                              !.orig = <<"a", "b">>, !.corr = <<"a", "c">>,
                                              !.index = 7] }

OutputSamples ==
  {Output(items, Meta("start", "v1")) : items \in SeqsUpTo(ItemSamples, MaxItems)}
    \cup {[EmptyOutput EXCEPT !.keys = {"items"}, !.items = items] :
            items \in SeqsUpTo(ItemSamples, 1)}
    \cup { NoneOutput, [EmptyOutput EXCEPT !.kind = "other"], EmptyOutput,
           [EmptyOutput EXCEPT !.keys = {"meta"}, !.meta = Meta("start", "v1")],
           [EmptyOutput EXCEPT !.keys = {"items"}, !.items_kind = "none"],
           [EmptyOutput EXCEPT !.keys = {"items"}, !.items_kind = "other"] }

InitValidate ==
  /\ vin \in OutputSamples
  /\ vret = NotValidated

ValidateCall ==
  /\ ~vret.called
  /\ LET v == validate_plugin_output(vin) IN
       vret' = [called |-> TRUE, raised |-> v.raised, out |-> v.out]
  /\ UNCHANGED <<pipeline, cfg, pc, idx, out, err, calls, written, vin>>

(***************************************************************************)
(* Part 5: DatabaseManager (database.py).  A row of ocr_results or         *)
(* structured_data is kept as the file_id it refers to; foreign keys are   *)
(* declared but not enforced, so a row may refer to an id that has no file *)
(* record.  Every handler works inside "with sqlite3.connect(...) as       *)
(* conn": the statements of the block form one transaction, which is rolled *)
(* back when the block is left by an exception.                            *)
(***************************************************************************)
VARIABLES
  file_records,     \* the ids of the rows of file_records
  file_seq,         \* the AUTOINCREMENT sequence of file_records
  ocr_results,      \* the rows of ocr_results
  structured_data,  \* the rows of structured_data
  db_last           \* the last handler call: its argument, whether it raised,
                    \* and for delete_file_record the tables as they were
                    \* when it was called

dbVars == <<file_records, file_seq, ocr_results, structured_data, db_last>>

\* file records saved in one run
MaxFiles == 1
\* most rows of ocr_results, and of structured_data
MaxRows == 2

\* the ids handlers are called with: 0 was never given to a file record
FileIds == 0..MaxFiles

Tables(f, o, s) == [file_records |-> f, ocr_results |-> o, structured_data |-> s]

CurrentTables == Tables(file_records, ocr_results, structured_data)

NoDbCall == [op |-> "none", file_id |-> 0, raised |-> FALSE, before |-> Tables({}, <<>>, <<>>)]

InitDb ==
  /\ file_records = {}
  /\ file_seq = 0
  /\ ocr_results = <<>>
  /\ structured_data = <<>>
  /\ db_last = NoDbCall

\* DELETE FROM t WHERE file_id = ?
DeleteRows(rows, file_id) == SelectSeq(rows, LAMBDA r : r # file_id)

\* n INSERT statements for file_id
InsertRows(rows, file_id, n) == rows \o [i \in 1..n |-> file_id]

\* the k-th DELETE statement of delete_file_record
DeleteStatement(k, t, file_id) ==
  CASE k = 1 -> [t EXCEPT !.ocr_results = DeleteRows(@, file_id)]
    [] k = 2 -> [t EXCEPT !.structured_data = DeleteRows(@, file_id)]
    [] OTHER -> [t EXCEPT !.file_records = @ \ {file_id}]

\* the k-th statement when the first n statements are executed
Statement(k, n, t, file_id) == IF k <= n THEN DeleteStatement(k, t, file_id) ELSE t

\* the transaction after the first n DELETE statements
Executed(t, file_id, n) ==
  Statement(3, n, Statement(2, n, Statement(1, n, t, file_id), file_id), file_id)

\* a variant in which every statement is committed as it is executed
ConnectionExitAutocommit(committed, working, raised) == working

\* leaving "with sqlite3.connect(...) as conn": the transaction is committed,
\* or rolled back when an exception leaves the block
ConnectionExit(committed, working, raised) == IF raised THEN committed ELSE working

DbCalled(op, file_id, raised) ==
  db_last' = [op |-> op, file_id |-> file_id, raised |-> raised,
              before |-> IF op = "delete_file_record" THEN CurrentTables
                         ELSE Tables({}, <<>>, <<>>)]

SetTables(t) ==
  /\ file_records' = t.file_records
  /\ ocr_results' = t.ocr_results
  /\ structured_data' = t.structured_data

\* save_file_record: one INSERT and the commit; fails: the handler raises
save_file_record(fails) ==
  /\ file_seq < MaxFiles
  /\ SetTables(ConnectionExit(CurrentTables,
                              [CurrentTables EXCEPT !.file_records = @ \cup {file_seq + 1}],
                              fails))
  /\ file_seq' = IF fails THEN file_seq ELSE file_seq + 1
  /\ DbCalled("save_file_record", IF fails THEN 0 ELSE file_seq + 1, fails)

\* save_ocr_results: one INSERT per result and the commit
save_ocr_results(file_id, n, fails) ==
  /\ Len(ocr_results) + n <= MaxRows
  /\ SetTables(ConnectionExit(CurrentTables,
                              [CurrentTables EXCEPT !.ocr_results = InsertRows(@, file_id, n)],
                              fails))
  /\ DbCalled("save_ocr_results", file_id, fails)
  /\ UNCHANGED file_seq

\* save_structured_data: one INSERT per data row and the commit
save_structured_data(file_id, n, fails) ==
  /\ Len(structured_data) + n <= MaxRows
  /\ SetTables(ConnectionExit(CurrentTables,
                              [CurrentTables EXCEPT !.structured_data = InsertRows(@, file_id, n)],
                              fails))
  /\ DbCalled("save_structured_data", file_id, fails)
  /\ UNCHANGED file_seq

\* the places where delete_file_record can fail: nowhere (0), in its first,
\* second or third DELETE, or in conn.commit() (4)
DeleteFailures == 0..4

\* delete_file_record(file_id): the statements before the failing one are
\* executed, then the block is left
delete_file_record(file_id, fail_at) ==
  /\ SetTables(ConnectionExit(CurrentTables,
                              Executed(CurrentTables, file_id,
                                       IF fail_at = 0 THEN 3 ELSE fail_at - 1),
                              fail_at # 0))
  /\ DbCalled("delete_file_record", file_id, fail_at # 0)
  /\ UNCHANGED file_seq

(***************************************************************************)
(* Part 6: MGX_template DataProcessor and the Streamlit pages that fill    *)
(* it.  data_processor is one module-level object shared by every session  *)
(* of the server process; st.session_state is per session.                 *)
(***************************************************************************)
VARIABLES
  data_store,      \* DataProcessor.data_store
  metadata_store,  \* DataProcessor.metadata_store
  session_state,   \* per session: whether main has run, and its two lists
  dp_last          \* the last DataProcessor or page call and its result

dataVars == <<data_store, metadata_store, session_state, dp_last>>

\* longest data_store explored
MaxEntries == 2

\* number of browser sessions
MaxSessions == 2

Sessions == 1..MaxSessions

\* a confidence_score value: a float (in thousandths), a string, or no key
Confidence(kind, num, str) == [kind |-> kind, num |-> num, str |-> str]

FloatConfidence(n) == Confidence("float", n, "")

StrConfidence(s) == Confidence("str", 0, s)

NoConfidence == Confidence("missing", 0, "")

\* the strings float() parses, with their value in thousandths
FloatOfString(s) == IF s = "0.5" THEN 500 ELSE -1

\* bool(value) of data.get('confidence_score', '')
ConfidenceTruthy(c) ==
  CASE c.kind = "float" -> c.num # 0
    [] c.kind = "str" -> c.str # ""
    [] OTHER -> FALSE

\* whether float(validated_data['confidence_score']) raises ValueError
FloatRaises(c) ==
  ConfidenceTruthy(c) /\ c.kind = "str" /\ FloatOfString(c.str) = -1

\* _validate_data_structure: the fields read with get, confidence_score made a
\* float
_validate_data_structure(data) ==
  [name |-> data.name,
   confidence_score |->
     IF ~ConfidenceTruthy(data.confidence_score) THEN FloatConfidence(0)
     ELSE IF data.confidence_score.kind = "str"
          THEN FloatConfidence(FloatOfString(data.confidence_score.str))
          ELSE data.confidence_score]

\* the metadata argument: a dict with a filename
Metadata(filename) == [filename |-> filename]

\* the body of add_data_entry: the two stores afterwards and the value
\* returned.  Validation raises before anything is stored
AddDataEntry(entry, metadata) ==
  IF FloatRaises(entry.confidence_score)
  THEN [data_store |-> data_store, metadata_store |-> metadata_store, ret |-> FALSE]
  ELSE [data_store |-> Append(data_store, _validate_data_structure(entry)),
        metadata_store |-> Append(metadata_store,
                                  [entry_id |-> Len(data_store) + 1,
                                   filename |-> metadata.filename]),
        ret |-> TRUE]

DpCalled(op, session, ret) ==
  dp_last' = [op |-> op, session |-> session, ret |-> ret]

InitData ==
  /\ data_store = <<>>
  /\ metadata_store = <<>>
  /\ session_state = [s \in Sessions |->
                        [started |-> FALSE, processed_data |-> <<>>,
                         processing_history |-> <<>>]]
  /\ dp_last = [op |-> "none", session |-> 0, ret |-> FALSE]

\* add_data_entry(entry, metadata); the except branch reports a
\* LEVEL_2 exception
add_data_entry(entry, metadata) ==
  /\ Len(data_store) < MaxEntries
  /\ Len(metadata_store) < MaxEntries
  /\ LET r == AddDataEntry(entry, metadata)
     IN  /\ data_store' = r.data_store
         /\ metadata_store' = r.metadata_store
         /\ IF r.ret THEN UNCHANGED excVars ELSE handle_exception("LEVEL_2")
         /\ DpCalled("add_data_entry", 0, r.ret)
  /\ UNCHANGED session_state

clear_data ==
  /\ data_store' = <<>>
  /\ metadata_store' = <<>>
  /\ DpCalled("clear_data", 0, TRUE)
  /\ UNCHANGED <<session_state, excVars>>

\* the JSON documents load_from_json is given: a file that cannot be read or
\* parsed, or an object with or without the keys 'data' and 'metadata'
JsonFile(readable, has_data, data, has_metadata, metadata) ==
  [readable |-> readable, has_data |-> has_data, data |-> data,
   has_metadata |-> has_metadata, metadata |-> metadata]

StoredEntry == [name |-> "a", confidence_score |-> FloatConfidence(900)]

StoredMetadata == [entry_id |-> 1, filename |-> "a.png"]

JsonFiles ==
  {JsonFile(FALSE, FALSE, <<>>, FALSE, <<>>),
   JsonFile(TRUE, FALSE, <<>>, FALSE, <<>>),
   JsonFile(TRUE, TRUE, <<StoredEntry>>, TRUE, <<StoredMetadata>>),
   JsonFile(TRUE, TRUE, <<StoredEntry>>, FALSE, <<>>),
   JsonFile(TRUE, FALSE, <<>>, TRUE, <<StoredMetadata>>)}

\* load_from_json(filepath): each store is replaced when its key is present
load_from_json(file) ==
  /\ IF ~file.readable
     THEN /\ handle_exception("LEVEL_1")
          /\ UNCHANGED <<data_store, metadata_store>>
     ELSE /\ data_store' = IF file.has_data THEN file.data ELSE data_store
          /\ metadata_store' = IF file.has_metadata THEN file.metadata
                               ELSE metadata_store
          /\ UNCHANGED excVars
  /\ DpCalled("load_from_json", 0, file.readable)
  /\ UNCHANGED session_state

\* the first lines of main, run at the start of every script run of a session
MainInitialised(s) ==
  IF session_state[s].started THEN session_state
  ELSE [session_state EXCEPT ![s] = [started |-> TRUE, processed_data |-> <<>>,
                                     processing_history |-> <<>>]]

\* a script run of session s in which no button is pressed
main(s) ==
  /\ session_state' = MainInitialised(s)
  /\ DpCalled("main", s, TRUE)
  /\ UNCHANGED <<data_store, metadata_store, excVars>>

\* the lists of session s are shorter than the longest list explored
SessionHasRoom(s) ==
  /\ Len(session_state[s].processed_data) < MaxEntries
  /\ Len(session_state[s].processing_history) < MaxEntries

\* confidences the slider of the manual-entry form offers, in thousandths
SliderSamples == {950}

\* show_upload_page, 'Save Manual Entry' pressed: the confidence is a float and
\* the metadata a dict, so add_data_entry stores both entries
save_manual_entry(s, confidence) ==
  /\ Len(data_store) < MaxEntries
  /\ SessionHasRoom(s)
  /\ LET manual_data == [name |-> "manual", confidence_score |-> FloatConfidence(confidence)]
         r == AddDataEntry(manual_data, Metadata("manual_entry"))
         ss == MainInitialised(s)
     IN  /\ data_store' = r.data_store
         /\ metadata_store' = r.metadata_store
         /\ session_state' =
              IF r.ret
              THEN [ss EXCEPT ![s].processed_data = Append(@, manual_data)]
              ELSE ss
         /\ DpCalled("save_manual_entry", s, r.ret)
  /\ UNCHANGED excVars

\* OCRProcessor.extract_structured_data: the mean confidence of the results
extract_structured_data(results) ==
  [name |-> "",
   confidence_score |->
     FloatConfidence(IF results = <<>> THEN 0
                     ELSE SumOver([i \in 1..Len(results) |->
                                     results[i].result.confidence],
                                  1..Len(results)) \div Len(results))]

\* app.process_file(uploaded_file), 'Process File' pressed in session s: OCR,
\* then add_data_entry, then the session's lists; raises: a step of the try
\* block raises before OCR, and the except branch records the failure
upload_process_file(s, file, outcomes, ocr_raises, raises) ==
  /\ Len(data_store) < MaxEntries
  /\ SessionHasRoom(s)
  /\ IF raises
     THEN /\ session_state' =
               [MainInitialised(s) EXCEPT ![s].processing_history = Append(@, "failed")]
          /\ DpCalled("process_file", s, FALSE)
          /\ UNCHANGED <<data_store, metadata_store, excVars>>
     ELSE /\ process_file(file, outcomes, ocr_raises)
          /\ LET results == pf'.ret
                 entry == extract_structured_data(results)
                 r == AddDataEntry(entry, Metadata(file))
                 stored == results # <<>> /\ r.ret
             IN  /\ data_store' = IF results = <<>> THEN data_store ELSE r.data_store
                 /\ metadata_store' = IF results = <<>> THEN metadata_store
                                      ELSE r.metadata_store
                 /\ session_state' =
                      IF stored
                      THEN [MainInitialised(s) EXCEPT
                              ![s].processed_data = Append(@, entry),
                              ![s].processing_history = Append(@, "success")]
                      ELSE MainInitialised(s)
                 /\ DpCalled("process_file", s, stored)

\* show_dashboard_page, 'Confirm Clear' taken: the shared store, this session's
\* lists and the exception history are cleared
confirm_clear(s) ==
  /\ data_store' = <<>>
  /\ metadata_store' = <<>>
  /\ session_state' = [MainInitialised(s) EXCEPT ![s].processed_data = <<>>,
                                                 ![s].processing_history = <<>>]
  /\ clear_history
  /\ DpCalled("confirm_clear", s, TRUE)

(***************************************************************************)
(* Part 7: DiaryExtractor.extract_from_pdf (diary_extractor.py).           *)
(***************************************************************************)
VARIABLES
  stats,           \* DiaryExtractor.stats, kept from call to call
  extract_result,  \* what the last extract_from_pdf call returned
  extract_calls    \* number of extract_from_pdf calls on this extractor

diaryVars == <<stats, extract_result, extract_calls>>

\* most pages in a PDF
MaxPages == 2

\* most extract_from_pdf calls on one extractor
MaxCalls == 2

SleepCategories == {"sleep_diary_morning", "sleep_diary_night"}

\* what _classify_page returns
Categories == {"food_diary", "riding_diary", "unknown"} \cup SleepCategories

\* what a call of the vision model ends in: a value, or an exception when the
\* primary and the fallback model both fail
ClassifyOutcomes == Categories \cup {"raise"}

\* how the model behaves on one page: the first classification, the
\* classification of the rotated page, and whether the extraction raises
PageBehaviour(category, cat2, structure_raises) ==
  [category |-> category, cat2 |-> cat2, structure_raises |-> structure_raises]

\* whether the page is rotated and classified again
Rotates(category) == category \in SleepCategories \/ category = "unknown"

PageBehaviours ==
  {PageBehaviour(c, c2, r) : c \in ClassifyOutcomes, c2 \in ClassifyOutcomes, r \in BOOLEAN}

\* the local variables structured and raw_text: unbound until a branch of
\* step 2 assigns them; page and category tell which extraction made the value
Unbound == [bound |-> FALSE, page |-> 0, category |-> ""]

Structured(page, category) == [bound |-> TRUE, page |-> page, category |-> category]

\* an entry of page_results
PageEntry(page, category, structured) ==
  [page |-> page, category |-> category, structured |-> structured]

\* the entry of the except branch: {"error": str(e)}
ErrorEntry(page) == PageEntry(page, "error", Structured(page, "error"))

\* the category after the optional rotation
FinalCategory(b) ==
  IF Rotates(b.category) /\ b.cat2 \in SleepCategories THEN b.cat2 ELSE b.category

\* whether the try block of the page raises: a classification fails, the
\* extraction fails, or raw_text is read while unbound
PageRaises(b, structured) ==
  \/ b.category = "raise"
  \/ Rotates(b.category) /\ b.cat2 = "raise"
  \/ FinalCategory(b) # "unknown" /\ b.structure_raises
  \/ FinalCategory(b) = "unknown" /\ ~structured.bound

\* the local variable structured after the page
StructuredAfter(number, b, structured) ==
  IF PageRaises(b, structured) \/ FinalCategory(b) = "unknown" THEN structured
  ELSE Structured(number, FinalCategory(b))

\* self.stats after the page
StatsAfter(b, structured, st) ==
  IF PageRaises(b, structured)
  THEN [st EXCEPT !.failed_pages = @ + 1]
  ELSE [st EXCEPT !.successful_pages = @ + 1,
                  !.category_counts[FinalCategory(b)] = @ + 1,
                  !.processing_times = @ + 1]

\* the state of the loop: self.stats, page_results and the local structured
LoopState(st, page_results, structured) ==
  [stats |-> st, page_results |-> page_results, structured |-> structured]

\* the loop over the pages, from page number on
RECURSIVE PageLoopFrom(_, _, _)
PageLoopFrom(number, behaviours, l) ==
  IF number > Len(behaviours) THEN l
  ELSE PageLoopFrom(number + 1, behaviours,
         LoopState(StatsAfter(behaviours[number], l.structured, l.stats),
                   Append(l.page_results,
                          IF PageRaises(behaviours[number], l.structured)
                          THEN ErrorEntry(number)
                          ELSE PageEntry(number, FinalCategory(behaviours[number]),
                                         StructuredAfter(number, behaviours[number],
                                                         l.structured))),
                   StructuredAfter(number, behaviours[number], l.structured)))

\* DiaryExtractor.__init__
InitStats ==
  [total_pages |-> 0, successful_pages |-> 0, failed_pages |-> 0,
   category_counts |-> [c \in Categories |-> 0], processing_times |-> 0]

\* the dict extract_from_pdf returns
ExtractResult(page_count, st, page_results) ==
  [returned |-> TRUE, page_count |-> page_count,
   category_summary |-> st.category_counts,
   successful_pages |-> st.successful_pages,
   failed_pages |-> st.failed_pages,
   pages |-> page_results]

NoExtractResult ==
  [returned |-> FALSE, page_count |-> 0,
   category_summary |-> [c \in Categories |-> 0],
   successful_pages |-> 0, failed_pages |-> 0, pages |-> <<>>]

InitDiary ==
  /\ stats = InitStats
  /\ extract_result = NoExtractResult
  /\ extract_calls = 0

\* extract_from_pdf(pdf_path) on a PDF of Len(behaviours) pages
extract_from_pdf(behaviours) ==
  /\ extract_calls < MaxCalls
  /\ LET l == PageLoopFrom(1, behaviours,
                           LoopState([stats EXCEPT !.total_pages = Len(behaviours)],
                                     <<>>, Unbound))
     IN  /\ stats' = l.stats
         /\ extract_result' = ExtractResult(Len(behaviours), l.stats, l.page_results)
  /\ extract_calls' = extract_calls + 1

(***************************************************************************)
(* Specifications.                                                         *)
(***************************************************************************)
\* the parts added after the pipeline
restVars == <<dbVars, dataVars, diaryVars>>

vars == <<engineVars, excVars, visionVars, pipelineVars, restVars>>

notEngineVars == <<excVars, visionVars, pipelineVars, restVars>>

notExcVars == <<engineVars, visionVars, pipelineVars, restVars>>

notVisionVars == <<engineVars, excVars, pipelineVars, restVars>>

notPipelineVars == <<engineVars, excVars, visionVars, restVars>>

notDbVars == <<engineVars, excVars, visionVars, pipelineVars, dataVars, diaryVars>>

\* everything but the data processor, the sessions and the exception handler
notDataVars == <<engineVars, visionVars, pipelineVars, dbVars, diaryVars>>

notDiaryVars == <<engineVars, excVars, visionVars, pipelineVars, dbVars, dataVars>>

\* the managers on a host where both engines are available, left alone
IdleManagers ==
  /\ engines = [n \in {"tesseract", "paddle"} |-> TRUE]
  /\ active_engines = EngineOrder
  /\ ocr_config = OCRConfigDefault
  /\ experiments = <<>>
  /\ now = 0
  /\ last = NoCall
  /\ saved = <<>>
  /\ budget = -1

IdleVision ==
  /\ ocrmypdf_available = FALSE
  /\ vreq = NoRequest
  /\ vpc = "idle"
  /\ vcalls = <<>>
  /\ vsteps = <<>>
  /\ vresult = "none"

IdlePipeline ==
  /\ pipeline = <<>>
  /\ cfg = [api_keys |-> {}, char_set_action |-> FALSE, table_out |-> "none",
            out_json |-> FALSE]
  /\ pc = "build"
  /\ idx = 0
  /\ out = NoneOutput
  /\ err = "none"
  /\ calls = <<>>
  /\ written = FALSE

IdleValidate == vin = NoneOutput /\ vret = NotValidated

IdleRest == InitDb /\ InitData /\ InitDiary

\* the engine manager alone, under every sequence of calls
InitEngines ==
  InitManagers /\ budget = -1 /\ InitExc /\ IdleVision /\ IdlePipeline /\ IdleValidate
    /\ IdleRest

NextEngines ==
  \/ \E engine_names \in EngineLists :
       set_active_engines(engine_names) /\ UNCHANGED notEngineVars
  \/ \E engine_name \in EngineNames :
       enable_engine(engine_name) /\ UNCHANGED notEngineVars
  \/ \E engine_name \in EngineNames :
       disable_engine(engine_name) /\ UNCHANGED notEngineVars
  \/ reset_to_default /\ UNCHANGED notEngineVars
  \/ \E preset \in PresetConfigs : load_preset(preset) /\ UNCHANGED notEngineVars

SpecEngines == InitEngines /\ [][NextEngines]_vars

\* the engine manager together with the configuration manager, for MaxOps calls
InitConfig ==
  InitManagers /\ budget = MaxOps /\ InitExc /\ IdleVision /\ IdlePipeline /\ IdleValidate
    /\ IdleRest

NextConfig ==
  \/ \E engine_names \in ConfigLists :
       set_active_engines(engine_names) /\ UNCHANGED notEngineVars
  \/ \E engine_name \in EngineNames :
       enable_engine(engine_name) /\ UNCHANGED notEngineVars
  \/ \E engine_name \in EngineNames :
       disable_engine(engine_name) /\ UNCHANGED notEngineVars
  \/ reset_to_default /\ UNCHANGED notEngineVars
  \/ \E preset \in PresetConfigs : load_preset(preset) /\ UNCHANGED notEngineVars
  \/ \E engine_list \in ConfigLists, kwargs \in KwargSamples :
       create_experiment(engine_list, kwargs) /\ UNCHANGED notEngineVars
  \/ save_current_config /\ UNCHANGED notEngineVars
  \/ \E experiment_id \in ExperimentIds :
       load_experiment(experiment_id) /\ UNCHANGED notEngineVars
  \/ \E experiment_id \in ExperimentIds :
       delete_experiment(experiment_id) /\ UNCHANGED notEngineVars
  \/ Tick /\ UNCHANGED notEngineVars

SpecConfig == InitConfig /\ [][NextConfig]_vars

\* the exception handler and process_file, with the presets that change the
\* active engines and combine_results
InitExcSpec ==
  InitManagers /\ budget = -1 /\ InitExc /\ IdleVision /\ IdlePipeline /\ IdleValidate
    /\ IdleRest

NextExc ==
  \/ \E level \in ExceptionLevel : handle_exception(level) /\ UNCHANGED notExcVars
  \/ clear_history /\ UNCHANGED notExcVars
  \/ \E file \in FileKinds, outcomes \in SeqsUpTo(PageOutcomes, 1),
        ocr_raises \in BOOLEAN :
       process_file(file, outcomes, ocr_raises) /\ UNCHANGED notExcVars
  \/ \E preset \in PresetConfigs : load_preset(preset) /\ UNCHANGED notEngineVars

SpecExc == InitExcSpec /\ [][NextExc]_vars

\* one vision request after another
InitVisionSpec ==
  IdleManagers /\ InitExc /\ InitVision /\ IdlePipeline /\ IdleValidate
    /\ IdleRest

NextVision ==
  \/ \E kind \in RequestKinds, prefer_ocrmypdf \in BOOLEAN :
       StartRequest(kind, prefer_ocrmypdf) /\ UNCHANGED notVisionVars
  \/ \E succeeds \in BOOLEAN : RunOcrmypdf(succeeds) /\ UNCHANGED notVisionVars
  \/ \E succeeds \in BOOLEAN : EncodeImage(succeeds) /\ UNCHANGED notVisionVars
  \/ \E outcome \in CallOutcomes : CallPrimary(outcome) /\ UNCHANGED notVisionVars
  \/ \E outcome \in CallOutcomes : CallFallback(outcome) /\ UNCHANGED notVisionVars

SpecVision == InitVisionSpec /\ [][NextVision]_vars

\* one run of data_pipeline.main
InitPipelineSpec == IdleManagers /\ InitExc /\ IdleVision /\ InitPipeline /\ IdleRest

NextPipeline ==
  \/ Build /\ UNCHANGED notPipelineVars
  \/ ProcessPaddleocr /\ UNCHANGED notPipelineVars
  \/ ProcessGptRefine /\ UNCHANGED notPipelineVars
  \/ ProcessCharAgreement /\ UNCHANGED notPipelineVars
  \/ ProcessGptTable /\ UNCHANGED notPipelineVars
  \/ ProcessAliTable /\ UNCHANGED notPipelineVars
  \/ ValidateOutput /\ UNCHANGED notPipelineVars
  \/ WriteJson /\ UNCHANGED notPipelineVars

SpecPipeline == InitPipelineSpec /\ [][NextPipeline]_vars

\* validate_plugin_output applied once to an output of any shape
InitValidateSpec ==
  IdleManagers /\ InitExc /\ IdleVision /\ IdlePipeline /\ InitValidate /\ IdleRest

NextValidate == ValidateCall /\ UNCHANGED notPipelineVars

SpecValidate == InitValidateSpec /\ [][NextValidate]_vars

\* the database handlers, in any order
InitDbSpec ==
  IdleManagers /\ InitExc /\ IdleVision /\ IdlePipeline /\ IdleValidate /\ InitDb
    /\ InitData /\ InitDiary

NextDb ==
  \/ \E fails \in BOOLEAN : save_file_record(fails) /\ UNCHANGED notDbVars
  \/ \E file_id \in FileIds, n \in 0..MaxRows, fails \in BOOLEAN :
       save_ocr_results(file_id, n, fails) /\ UNCHANGED notDbVars
  \/ \E file_id \in FileIds, n \in 0..MaxRows, fails \in BOOLEAN :
       save_structured_data(file_id, n, fails) /\ UNCHANGED notDbVars
  \/ \E file_id \in FileIds, fail_at \in DeleteFailures :
       delete_file_record(file_id, fail_at) /\ UNCHANGED notDbVars

SpecDb == InitDbSpec /\ [][NextDb]_vars

\* the data processor alone, under every sequence of calls
InitDataSpec ==
  IdleManagers /\ InitExc /\ IdleVision /\ IdlePipeline /\ IdleValidate /\ IdleRest

\* arguments add_data_entry is given
EntrySamples ==
  {[name |-> "a", confidence_score |-> c] :
     c \in {FloatConfidence(900), StrConfidence("0.5"), StrConfidence("high"), NoConfidence}}

NextData ==
  \/ \E entry \in EntrySamples, metadata \in {Metadata("a.png")} :
       add_data_entry(entry, metadata) /\ UNCHANGED notDataVars
  \/ clear_data /\ UNCHANGED notDataVars
  \/ \E file \in JsonFiles : load_from_json(file) /\ UNCHANGED notDataVars

SpecData == InitDataSpec /\ [][NextData]_vars

\* the pages of the application, used by several sessions of one server
InitAppSpec ==
  IdleManagers /\ InitExc /\ IdleVision /\ IdlePipeline /\ IdleValidate
    /\ IdleRest

\* what the engines return for an uploaded page: nothing, or a confident result
UploadOutcomes ==
  {outcomes \in SeqsUpTo(PageOutcomes, 1) :
     \A k \in 1..Len(outcomes) : \A j \in DOMAIN outcomes[k] :
        outcomes[k][j].confidence \in {NoResult.confidence, 900}}

NextApp ==
  \/ \E s \in Sessions : main(s) /\ UNCHANGED notDataVars
  \/ \E s \in Sessions, confidence \in SliderSamples :
       save_manual_entry(s, confidence) /\ UNCHANGED notDataVars
  \/ \E s \in Sessions, file \in FileKinds, outcomes \in UploadOutcomes,
        ocr_raises \in BOOLEAN, raises \in BOOLEAN :
       upload_process_file(s, file, outcomes, ocr_raises, raises) /\ UNCHANGED notDataVars
  \/ \E s \in Sessions : confirm_clear(s) /\ UNCHANGED notDataVars

SpecApp == InitAppSpec /\ [][NextApp]_vars

\* one extractor, given one PDF after another
InitDiarySpec ==
  IdleManagers /\ InitExc /\ IdleVision /\ IdlePipeline /\ IdleValidate /\ IdleRest

NextDiary ==
  \/ \E behaviours \in SeqsUpTo(PageBehaviours, MaxPages) :
       extract_from_pdf(behaviours) /\ UNCHANGED notDiaryVars

SpecDiary == InitDiarySpec /\ [][NextDiary]_vars

(***************************************************************************)
(* Claims about the engine manager and the configuration manager.          *)
(***************************************************************************)
IsAvailable(n) == n \in DOMAIN engines /\ engines[n]

\* C4: after disable_engine(e) returns, e is disabled: it is not in
\* get_active_engines(), get_engine_status()[e]['active'] is False and
\* process_image does not run it, whatever calls came before.
C4_DisabledAfterDisable ==
  last.op = "disable_engine" =>
    /\ ~In(last.arg, get_active_engines)
    /\ last.arg \in DOMAIN get_engine_status => ~get_engine_status[last.arg].active
    /\ ~In(last.arg, process_image_runs)

\* C5: after set_active_engines(L), get_active_engines() is L without the
\* names that are not available engines, in L's order; a single available
\* engine leaves exactly that engine active, and get_available_engines()
\* leaves exactly the available engines active.
C5_SetActiveFilters ==
  last.op = "set_active_engines" =>
    /\ get_active_engines = SelectSeq(last.list, IsAvailable)
    /\ (Len(last.list) = 1 /\ IsAvailable(last.list[1])) =>
         get_active_engines = <<last.list[1]>>
    /\ last.list = get_available_engines =>
         /\ Range(get_active_engines) = {n \in DOMAIN engines : engines[n]}
         /\ \A n \in Range(get_active_engines) : Count(n, get_active_engines) = 1

\* C5 witness: a two-engine list in the caller's order, not the registry's
C5_Witness ==
  /\ last.op = "set_active_engines"
  /\ last.list = <<"paddle", "tesseract">>
  /\ active_engines = <<"paddle", "tesseract">>

\* C6: enable_engine(e) returns True exactly when e is registered and
\* available, and then e is active exactly once; when it returns False the
\* active engine list is unchanged.
C6_EnableOnce ==
  last.op = "enable_engine" =>
    /\ last.ret <=> IsAvailable(last.arg)
    /\ last.ret => Count(last.arg, active_engines) = 1
    /\ ~last.ret => ~last.changed

\* C7: save_current_config, then any engine or configuration changes and
\* further saves, then load_experiment of the returned id: load_experiment
\* returns True and restores the active engine list, enable_preprocessing,
\* combine_results and target_accuracy of the time of the save.
C7_SaveLoadRoundTrip ==
  (last.op = "load_experiment" /\ last.id \in DOMAIN saved) =>
    /\ last.ret
    /\ active_engines = saved[last.id].active_engines
    /\ ocr_config = saved[last.id].ocr_config

\* C15: in every reachable state of OCREngineManager every active engine is a
\* registered engine whose is_available flag is true, so get_engine_status
\* never reports active together with not available, under any sequence of
\* set_active_engines, enable_engine, disable_engine, reset_to_default and
\* load_experiment calls.
C15_ActiveAreAvailable ==
  /\ \A i \in 1..Len(active_engines) : IsAvailable(active_engines[i])
  /\ \A n \in DOMAIN engines :
       get_engine_status[n].active => get_engine_status[n].available

\* an experiment that names an engine that is not available was loaded
C15_Witness ==
  /\ last.op = "load_experiment"
  /\ last.ret
  /\ last.id \in DOMAIN experiments
  /\ \E i \in 1..Len(experiments[last.id].active_engines) :
       ~IsAvailable(experiments[last.id].active_engines[i])
  /\ Len(active_engines) >= 1

\* C16: every create_experiment and save_current_config call returns an id
\* different from every id already stored, so the number of stored
\* experiments grows by exactly one per call and no saved experiment is
\* overwritten, however quickly the calls follow each other.
C16_FreshExperimentId ==
  [][(budget' # budget /\ last'.op \in {"create_experiment", "save_current_config"}) =>
       /\ last'.id \notin DOMAIN experiments
       /\ Cardinality(DOMAIN experiments') = Cardinality(DOMAIN experiments) + 1
       /\ \A id \in DOMAIN experiments : experiments'[id] = experiments[id]]_vars

(***************************************************************************)
(* Claims about the exception handler and process_file.                    *)
(***************************************************************************)
\* C8: every handle_exception call appends exactly one record carrying one of
\* the three levels, so get_exception_summary always has exactly three
\* counters whose sum is the number of handle_exception calls since the last
\* clear_history, and all three are zero right after clear_history.
C8_SummaryCountsCalls ==
  /\ \A i \in 1..Len(exception_history) : exception_history[i] \in ExceptionLevel
  /\ Len(exception_history) = handled
  /\ Cardinality(DOMAIN get_exception_summary) = 3
  /\ SumOver(get_exception_summary, DOMAIN get_exception_summary) = handled
  /\ exc_last = "clear_history" =>
       \A level \in DOMAIN get_exception_summary : get_exception_summary[level] = 0

\* C8 witness: three calls, one of each level
C8_Witness ==
  /\ handled = 3
  /\ exc_last = "handle_exception"
  /\ \A level \in ExceptionLevel : get_exception_summary[level] = 1

\* C9: process_file never raises; if converting or OCR-ing a page raises it
\* records exactly one LEVEL_2 exception and returns an empty list, with no
\* result of an earlier page and no retry; otherwise it returns at most one
\* result per page, in page order.
C9_ProcessFileContained ==
  (pf.op = "process_file" /\ exc_last = "process_file") =>
    LET conv == file_to_images(pf.file)
        threw == conv.raised \/ (pf.ocr_raises /\ conv.images # <<>>)
    IN  /\ ~pf.raised
        /\ pf.failed <=> threw
        /\ threw =>
             /\ pf.ret = <<>>
             /\ Len(exception_history) = pf.before + 1
             /\ exception_history[Len(exception_history)] = "LEVEL_2"
        /\ ~threw =>
             /\ exception_history = SubSeq(exception_history, 1, pf.before)
             /\ Len(pf.ret) <= Len(conv.images)
             /\ \A i \in 1..Len(pf.ret) : In(pf.ret[i].page, conv.images)
             /\ \A i, j \in 1..Len(pf.ret) : i < j => pf.ret[i].page < pf.ret[j].page

\* C9 witness: OCR of the page of an image file raises
C9_Witness ==
  /\ pf.op = "process_file"
  /\ exc_last = "process_file"
  /\ pf.file = "image"
  /\ pf.ocr_raises
  /\ pf.ret = <<>>
  /\ exception_history = <<"LEVEL_3", "LEVEL_2">>

(***************************************************************************)
(* Claims about the vision-model requests.                                 *)
(***************************************************************************)
\* C3: in each vision-model request the primary model is called first, the
\* fallback model only if the primary call raised and then exactly once, and
\* nothing is attempted after the fallback raised: at most two model calls,
\* never two calls of the same model.
C3_PrimaryThenFallbackOnce ==
  /\ Len(vcalls) <= 2
  /\ Len(vcalls) >= 1 => vcalls[1].model = primary_vision_model
  /\ Len(vcalls) = 2 =>
       /\ vcalls[2].model = fallback_vision_model
       /\ vcalls[1].outcome # "ok"
       /\ vpc = "done"
  /\ \A i, j \in 1..Len(vcalls) : i # j => vcalls[i].model # vcalls[j].model
  /\ (vpc = "done" /\ Len(vcalls) >= 1 /\ vcalls[1].outcome # "ok") => Len(vcalls) = 2
  /\ (Len(vcalls) = 1 /\ vcalls[1].outcome = "ok") => vpc = "done"

\* C3 witness: page classification whose primary and fallback calls both raised
C3_Witness ==
  /\ vreq.kind = "_classify_page"
  /\ vpc = "done"
  /\ Len(vcalls) = 2
  /\ vcalls[1].outcome = "quota"
  /\ vcalls[2].outcome = "other"
  /\ vresult = "raised"

\* a string that begins with 'OCR failed:'
BeginsWithOcrFailed(str) ==
  \E rest \in {"API key invalid or expired.", "quota exceeded or billing issue.", "other"} :
    str = "OCR failed: " \o rest

C1_PipelineInOrder ==
  /\ Len(calls) <= Len(pipeline)
  /\ \A i \in 1..Len(calls) : calls[i].name = pipeline[i]
  /\ Len(calls) >= 1 => calls[1].received = StartOutput
  /\ \A i \in 2..Len(calls) :
       /\ calls[i - 1].raised = "none"
       /\ calls[i - 1].validated = "ok"
       /\ calls[i].received = calls[i - 1].returned
  /\ pc = "process" => Len(calls) = idx /\ (idx >= 1 => calls[idx].validated = "ok")
  /\ (\E i \in 1..Len(calls) : calls[i].raised # "none" \/ calls[i].validated \notin {"no", "ok"})
       => pc = "failed"
  /\ pc = "failed" => ~written
  /\ written => /\ Len(calls) = Len(pipeline)
                /\ \A i \in 1..Len(calls) : calls[i].raised = "none" /\ calls[i].validated = "ok"

\* two different plugins ran one after the other and the JSON file was written
C1_Witness ==
  /\ pc = "done"
  /\ written
  /\ Len(calls) = 2
  /\ calls[1].name # calls[2].name
  /\ Len(calls[2].received.items) = 2

\* a 4-point polygon of numbers, or a rectangle [x1, y1, x2, y2] of numbers
IsPolygonOrRect(box) ==
  /\ box.kind \in {"list", "ndarray"}
  /\ Len(box.elems) = 4
  /\ \/ \A i \in 1..4 : IsNumber(box.elems[i])
     \/ \A i \in 1..4 : /\ IsPoint(box.elems[i])
                        /\ \A j \in 1..2 : box.elems[i].pt[j].kind \in {"int", "float"}

\* a 4-point polygon of integers, as validate_plugin_output leaves a box
IsPolygon4(box) ==
  /\ box.kind = "list"
  /\ Len(box.elems) = 4
  /\ \A i \in 1..4 : IsPoint(box.elems[i]) /\ \A j \in 1..2 : box.elems[i].pt[j].kind = "int"

\* C2: for every plugin and every schema-conforming upstream (one with no
\* items included), process returns a dict, never None, whose items each hold
\* a 4-point polygon box, so that the validation main makes next does not raise.
C2_PluginsReturnValidOutput ==
  \A i \in 1..Len(calls) :
    calls[i].raised = "none" =>
      /\ calls[i].returned.kind = "dict"
      /\ \A k \in 1..Len(calls[i].returned.items) :
           /\ calls[i].returned.items[k].kind = "dict"
           /\ "box" \in calls[i].returned.items[k].keys
           /\ IsPolygon4(calls[i].returned.items[k].box)
      /\ validate_plugin_output(calls[i].returned).raised = "none"

\* the outputs the claim C10 has validate_plugin_output accept
ConformsToSchema(o) ==
  /\ o.kind = "dict"
  /\ "items" \in o.keys
  /\ o.items_kind = "list"
  /\ \A k \in 1..Len(o.items) :
       /\ o.items[k].kind = "dict"
       /\ "box" \in o.items[k].keys
       /\ IsPolygonOrRect(o.items[k].box)

\* C10: validate_plugin_output(out, require_boxes=True) accepts out only if
\* it is a dict with an items list whose elements are dicts with a polygon or
\* rectangle box; in every other case it raises ValueError.
C10_ValidateAcceptsOnlyConforming ==
  vret.called =>
    /\ vret.raised = "none" => ConformsToSchema(vin)
    /\ ~ConformsToSchema(vin) => vret.raised = "ValueError"

\* the action C11 gives an item scored ca that came in as the item before
ExpectedAction(before, ca) ==
  IF ca < t_fix THEN "fix"
  ELSE IF ca < t_review THEN "review"
  ELSE IF "action" \in before.keys THEN before.action ELSE "keep"

\* C11: with set_action=True, after CharAgreementPlugin.process every item of
\* the output carries a char_agreement value, and its action is 'fix' below
\* t_fix, 'review' from t_fix up to t_review, and otherwise the action it had
\* before ('keep' if it had none).
C11_EveryItemScored ==
  \A i \in 1..Len(calls) :
    (/\ calls[i].name = "char_agreement"
     /\ cfg.char_set_action
     /\ calls[i].raised = "none"
     /\ calls[i].returned.kind = "dict") =>
      /\ Len(calls[i].returned.items) = Len(calls[i].received.items)
      /\ \A k \in 1..Len(calls[i].returned.items) :
           /\ "char_agreement" \in calls[i].returned.items[k].keys
           /\ "action" \in calls[i].returned.items[k].keys
           /\ calls[i].returned.items[k].action =
                ExpectedAction(calls[i].received.items[k],
                               calls[i].returned.items[k].char_agreement)

\* C12: GptTableGenPlugin.process returns an output that contains the tables
\* designed by the model (the parsed 'tables' array), and the upstream items
\* pass through unchanged.
C12_TablesInOutput ==
  \A i \in 1..Len(calls) :
    (calls[i].name = "gpt_table" /\ calls[i].raised = "none") =>
      /\ calls[i].returned.kind = "dict"
      /\ "tables" \in calls[i].returned.keys
      /\ calls[i].returned.tables = calls[i].designed
      /\ calls[i].returned.items = calls[i].received.items

(***************************************************************************)
(* Claims about the database manager.                                      *)
(***************************************************************************)
\* C13: delete_file_record(id) deletes the file record with its related data
\* as one unit: after it returns no row of file_records, ocr_results or
\* structured_data refers to id, and if it raises none of the three tables
\* has lost a row.
C13_DeleteIsOneUnit ==
  db_last.op = "delete_file_record" =>
    IF db_last.raised
    THEN CurrentTables = db_last.before
    ELSE /\ db_last.file_id \notin file_records
         /\ ~In(db_last.file_id, ocr_results)
         /\ ~In(db_last.file_id, structured_data)

\* a delete returned for an id that all three tables referred to
C13_Witness ==
  /\ db_last.op = "delete_file_record"
  /\ ~db_last.raised
  /\ db_last.file_id \in db_last.before.file_records
  /\ In(db_last.file_id, db_last.before.ocr_results)
  /\ In(db_last.file_id, db_last.before.structured_data)

(***************************************************************************)
(* Claims about the data processor and the sessions.                       *)
(***************************************************************************)
\* C17: data_store and metadata_store always have the same length, and the
\* i-th metadata entry is the one written for the i-th data entry (its
\* entry_id is i), after any sequence of add_data_entry, clear_data and
\* load_from_json calls.
C17_StoresAligned ==
  /\ Len(data_store) = Len(metadata_store)
  /\ \A i \in 1..Len(metadata_store) : metadata_store[i].entry_id = i

\* C18: every session that has run main holds as many entries in
\* st.session_state.processed_data as the shared data_store holds, whatever
\* this session and the other sessions have done.
C18_SessionMatchesStore ==
  \A s \in Sessions :
    session_state[s].started =>
      Len(session_state[s].processed_data) = Len(data_store)

(***************************************************************************)
(* Claims about the diary extractor.                                       *)
(***************************************************************************)
\* C19: in the result of extract_from_pdf the structured data of every page
\* entry comes from that page's own image; in particular a page whose final
\* category is 'unknown' carries no structured data extracted from an
\* earlier page.
C19_StructuredFromOwnPage ==
  \A i \in 1..Len(extract_result.pages) :
    /\ extract_result.pages[i].structured.page = extract_result.pages[i].page
    /\ extract_result.pages[i].category = "unknown" =>
         extract_result.pages[i].structured.category = "unknown"

\* C20: every call of extract_from_pdf, a second call on the same extractor
\* included, returns successful_pages + failed_pages = page_count = number of
\* entries in pages, and category counts that sum to successful_pages.
C20_StatsMatchPages ==
  extract_result.returned =>
    /\ extract_result.successful_pages + extract_result.failed_pages
         = extract_result.page_count
    /\ extract_result.page_count = Len(extract_result.pages)
    /\ SumOver(extract_result.category_summary, Categories)
         = extract_result.successful_pages

====
